---- MODULE Spec2Model ----
(***************************************************************************)
(* Model of the debate server: the three request handlers of app/routes.py *)
(* (start_debate, debate_round, end_debate) and the four model classes     *)
(* they call (FilterModel, PromptModel, DebateModel, ModeratorModel), each *)
(* of which reaches the inference backend through _make_api_request.       *)
(*                                                                         *)
(* Texts are sequences of one-character strings, so that strip, lower,     *)
(* split, startswith, replace and the substring test are computed as the   *)
(* Python code computes them.  One action is one step of a handler: the    *)
(* request validation, or one call of a model method together with the     *)
(* backend replies that call consumes.                                     *)
(***************************************************************************)
EXTENDS Integers, Sequences, FiniteSets, TLC

VARIABLES pc, req, loc, calls, resp, failed_before, sessions

vars == <<pc, req, loc, calls, resp, failed_before, sessions>>

(***************************************************************************)
(* Bounds of the model                                                     *)
(***************************************************************************)
\* longest debate_history a request carries
MaxHist == 2

\* most rounds a caller plays in one debate session
MaxRounds == 3

\* longest debate_history handed to a model method called directly
MaxCtx == 6

(***************************************************************************)
(* Python string operations on texts                                       *)
(***************************************************************************)
UpperChars == <<"A","B","C","D","E","F","G","H","I","J","K","L","M",
                "N","O","P","Q","R","S","T","U","V","W","X","Y","Z">>

LowerChars == <<"a","b","c","d","e","f","g","h","i","j","k","l","m",
                "n","o","p","q","r","s","t","u","v","w","x","y","z">>

Whitespace == {" ", "\n", "\t"}

\* s.find(c) + 1: the first position of character c in s, 0 when absent
find(s, c) ==
    IF \E i \in 1..Len(s) : s[i] = c
    THEN CHOOSE i \in 1..Len(s) : s[i] = c /\ \A j \in 1..(i-1) : s[j] # c
    ELSE 0

lower_char(c) ==
    LET i == find(UpperChars, c) IN IF i = 0 THEN c ELSE LowerChars[i]

upper_char(c) ==
    LET i == find(LowerChars, c) IN IF i = 0 THEN c ELSE UpperChars[i]

lower(s) == [i \in 1..Len(s) |-> lower_char(s[i])]

upper(s) == [i \in 1..Len(s) |-> upper_char(s[i])]

RECURSIVE lstrip(_)
lstrip(s) ==
    IF Len(s) > 0 /\ Head(s) \in Whitespace THEN lstrip(Tail(s)) ELSE s

RECURSIVE rstrip(_)
rstrip(s) ==
    IF Len(s) > 0 /\ s[Len(s)] \in Whitespace
    THEN rstrip(SubSeq(s, 1, Len(s) - 1))
    ELSE s

strip(s) == rstrip(lstrip(s))

startswith(s, p) == Len(s) >= Len(p) /\ SubSeq(s, 1, Len(p)) = p

\* p in s
contains(s, p) ==
    \E i \in 1..(Len(s) - Len(p) + 1) : SubSeq(s, i, i + Len(p) - 1) = p

\* s.replace(old, '')
RECURSIVE replace(_, _)
replace(s, old) ==
    IF Len(s) < Len(old) THEN s
    ELSE IF startswith(s, old)
         THEN replace(SubSeq(s, Len(old) + 1, Len(s)), old)
         ELSE <<Head(s)>> \o replace(Tail(s), old)

\* s.split('\n')
RECURSIVE split(_)
split(s) ==
    LET i == find(s, "\n") IN
    IF i = 0 THEN <<s>>
    ELSE <<SubSeq(s, 1, i - 1)>> \o split(SubSeq(s, i + 1, Len(s)))

\* [line.strip() for line in s.split('\n') if line.strip()]
stripped_lines(s) ==
    LET parts == split(s)
        all   == [i \in 1..Len(parts) |-> strip(parts[i])]
    IN  SelectSeq(all, LAMBDA l : Len(l) > 0)

\* s[n:]
slice_from(s, n) == SubSeq(s, n + 1, Len(s))

RECURSIVE rep(_, _)
rep(c, n) == IF n = 0 THEN <<>> ELSE <<c>> \o rep(c, n - 1)

(***************************************************************************)
(* Exceptions: "" is no exception, otherwise the class raised              *)
(***************************************************************************)
NoExc == ""

RequestsConnectionError == "requests.exceptions.ConnectionError"
RequestsTimeout         == "requests.exceptions.Timeout"
RequestsHTTPError       == "requests.exceptions.HTTPError"
JSONDecodeError         == "json.JSONDecodeError"
BuiltinConnectionError  == "ConnectionError"
BuiltinTimeoutError     == "TimeoutError"
ValueError              == "ValueError"
KeyError                == "KeyError"
TypeError               == "TypeError"

(***************************************************************************)
(* The backend: what one requests.post ... response.json() produces        *)
(***************************************************************************)
\* the faults of one call: no connection, timeout, non-2xx, body not JSON
Faults == {RequestsConnectionError, RequestsTimeout, RequestsHTTPError,
           JSONDecodeError}

\* a JSON object with a 'response' text
Answer(t) == [fault |-> NoExc, has_response |-> TRUE, response |-> t]

\* a JSON object without a 'response' field
NoResponseField == [fault |-> NoExc, has_response |-> FALSE, response |-> <<>>]

Fault(f) == [fault |-> f, has_response |-> FALSE, response |-> <<>>]

\* the backend failed during this call, or answered without a 'response'
Failed(reply) == reply.fault # NoExc \/ ~reply.has_response

Replies(texts) ==
    {Fault(f) : f \in Faults} \cup {NoResponseField} \cup {Answer(t) : t \in texts}

\* _make_api_request without its JSONDecodeError clause
_make_api_request_json_unmapped(reply) ==
    [exc |-> CASE reply.fault = RequestsConnectionError -> BuiltinConnectionError
               [] reply.fault = RequestsTimeout -> BuiltinTimeoutError
               [] OTHER -> reply.fault,
     has_response |-> reply.fault = NoExc /\ reply.has_response,
     response |-> IF reply.fault = NoExc /\ reply.has_response
                  THEN reply.response ELSE <<>>]

\* a client that stays broken once a call has failed
_make_api_request_poisoned(reply) ==
    IF failed_before \/ reply.fault = RequestsConnectionError
    THEN [exc |-> BuiltinConnectionError, has_response |-> FALSE, response |-> <<>>]
    ELSE [exc |-> CASE reply.fault = RequestsTimeout -> BuiltinTimeoutError
                    [] reply.fault = JSONDecodeError -> ValueError
                    [] OTHER -> reply.fault,
          has_response |-> reply.fault = NoExc /\ reply.has_response,
          response |-> IF reply.fault = NoExc /\ reply.has_response
                       THEN reply.response ELSE <<>>]

\* _make_api_request: the json of the reply, or the exception raised for it
_make_api_request(reply) ==
    [exc |-> CASE reply.fault = RequestsConnectionError -> BuiltinConnectionError
               [] reply.fault = RequestsTimeout -> BuiltinTimeoutError
               [] reply.fault = JSONDecodeError -> ValueError
               [] OTHER -> reply.fault,
     has_response |-> reply.fault = NoExc /\ reply.has_response,
     response |-> IF reply.fault = NoExc /\ reply.has_response
                  THEN reply.response ELSE <<>>]

\* a 'reason' is a literal of the code or a text computed from an answer
Lit(s) == [lit |-> s, text |-> <<>>]

Txt(t) == [lit |-> "", text |-> t]

(***************************************************************************)
(* FilterModel                                                             *)
(***************************************************************************)
\* not topic or len(topic.strip()) == 0
blank(topic) == Len(topic) = 0 \/ Len(strip(topic)) = 0

\* filter_topic failing open: a backend failure lets the topic through
filter_topic_fail_open(topic, reply) ==
    LET response == _make_api_request(reply)
        result   == lower(strip(response.response))
    IN  [exc |-> IF blank(topic) THEN ValueError ELSE NoExc,
         calls |-> IF blank(topic) THEN <<>>
                   ELSE <<[site |-> "filter", reply |-> reply]>>,
         is_appropriate |-> ~blank(topic)
             /\ (response.exc # NoExc \/ ~response.has_response
                    \/ contains(result, <<"t","r","u","e">>)),
         reason |-> Lit("")]

\* filter_topic without its except clause: a backend failure propagates
filter_topic_reraise(topic, reply) ==
    LET response == _make_api_request(reply)
        result   == lower(strip(response.response))
    IN  [exc |-> IF blank(topic) THEN ValueError
                 ELSE IF response.exc # NoExc THEN response.exc
                 ELSE IF ~response.has_response THEN KeyError ELSE NoExc,
         calls |-> IF blank(topic) THEN <<>>
                   ELSE <<[site |-> "filter", reply |-> reply]>>,
         is_appropriate |-> ~blank(topic) /\ response.exc = NoExc
             /\ response.has_response /\ contains(result, <<"t","r","u","e">>),
         reason |-> Lit("")]

\* filter_topic reading 'false' in the answer as a veto
filter_topic_false_wins(topic, reply) ==
    LET response == _make_api_request(reply)
        result   == lower(strip(response.response))
    IN  [exc |-> IF blank(topic) THEN ValueError ELSE NoExc,
         calls |-> IF blank(topic) THEN <<>>
                   ELSE <<[site |-> "filter", reply |-> reply]>>,
         is_appropriate |-> ~blank(topic) /\ response.exc = NoExc
             /\ response.has_response /\ contains(result, <<"t","r","u","e">>)
             /\ ~contains(result, <<"f","a","l","s","e">>),
         reason |-> Lit("")]

filter_topic(topic, reply) ==
    IF blank(topic)
    THEN [exc |-> ValueError, calls |-> <<>>, is_appropriate |-> FALSE,
          reason |-> Lit("")]
    ELSE LET response == _make_api_request(reply)
             result   == lower(strip(response.response))
             reason   == strip(replace(replace(result, <<"t","r","u","e">>),
                                       <<"f","a","l","s","e">>))
             made     == <<[site |-> "filter", reply |-> reply]>>
         IN  IF response.exc # NoExc \/ ~response.has_response
             THEN [exc |-> NoExc, calls |-> made, is_appropriate |-> FALSE,
                   reason |-> Lit("Unable to verify topic appropriateness")]
             ELSE [exc |-> NoExc, calls |-> made,
                   is_appropriate |-> contains(result, <<"t","r","u","e">>),
                   reason |-> IF Len(reason) > 0 THEN Txt(reason)
                              ELSE Lit("Topic analyzed for appropriateness")]

(***************************************************************************)
(* PromptModel                                                             *)
(***************************************************************************)
MinStanceLen == 5

MinPromptLen == 50

Call(site, reply) == [site |-> site, reply |-> reply]

FOR_COLON     == <<"F","O","R",":">>
FOR_WORD      == <<"F","O","R">>
FOR_SPACE     == <<"F","O","R"," ">>
AGAINST_COLON == <<"A","G","A","I","N","S","T",":">>
AGAINST_WORD  == <<"A","G","A","I","N","S","T">>
AGAINST_SPACE == <<"A","G","A","I","N","S","T"," ">>

\* the loop over the lines of the primary answer: a later line overrides
RECURSIVE parse_lines(_, _, _)
parse_lines(lines, for_stance, against_stance) ==
    IF Len(lines) = 0
    THEN [for_stance |-> for_stance, against_stance |-> against_stance]
    ELSE LET line == strip(Head(lines))
             up   == upper(line)
         IN  IF startswith(up, FOR_COLON)
             THEN parse_lines(Tail(lines), strip(slice_from(line, 4)), against_stance)
             ELSE IF startswith(up, AGAINST_COLON)
             THEN parse_lines(Tail(lines), for_stance, strip(slice_from(line, 8)))
             ELSE IF startswith(up, FOR_SPACE)
             THEN parse_lines(Tail(lines), strip(slice_from(line, 4)), against_stance)
             ELSE IF startswith(up, AGAINST_SPACE)
             THEN parse_lines(Tail(lines), for_stance, strip(slice_from(line, 8)))
             ELSE parse_lines(Tail(lines), for_stance, against_stance)

\* lines 96-121: the two statements parsed from the primary answer
parse_stances(result) ==
    LET lines    == stripped_lines(result)
        labelled == parse_lines(lines, <<>>, <<>>)
        picked   == IF Len(labelled.for_stance) = 0
                       /\ Len(labelled.against_stance) = 0 /\ Len(lines) >= 2
                    THEN [for_stance |-> strip(lines[1]),
                          against_stance |-> strip(lines[2])]
                    ELSE labelled
    IN  [for_stance |-> strip(replace(replace(picked.for_stance, FOR_COLON),
                                      FOR_WORD)),
         against_stance |-> strip(replace(replace(picked.against_stance,
                                                  AGAINST_COLON), AGAINST_WORD))]

Stances(calls_made, for_stance, against_stance) ==
    [exc |-> NoExc, calls |-> calls_made, for_stance |-> for_stance,
     against_stance |-> against_stance]

StancesFailed(calls_made) ==
    [exc |-> ValueError, calls |-> calls_made, for_stance |-> <<>>,
     against_stance |-> <<>>]

\* _retry_generate_stances sending its prompt a second time
_retry_generate_stances_again(topic, reply) ==
    LET response == _make_api_request(reply)
        lines    == stripped_lines(response.response)
        made     == <<Call("stances_retry", reply), Call("stances_retry", reply)>>
    IN  IF response.exc # NoExc \/ ~response.has_response THEN StancesFailed(made)
        ELSE IF Len(lines) >= 2 THEN Stances(made, lines[1], lines[2])
        ELSE StancesFailed(made)

_retry_generate_stances(topic, reply) ==
    LET response == _make_api_request(reply)
        lines    == stripped_lines(response.response)
        made     == <<Call("stances_retry", reply)>>
    IN  IF response.exc # NoExc \/ ~response.has_response THEN StancesFailed(made)
        ELSE IF Len(lines) >= 2 THEN Stances(made, lines[1], lines[2])
        ELSE StancesFailed(made)

\* generate_stances retrying only when both statements are too short
generate_stances_and(topic, reply, retry_reply) ==
    IF blank(topic) THEN StancesFailed(<<>>)
    ELSE LET response == _make_api_request(reply)
             parsed   == parse_stances(response.response)
             made     == <<Call("stances", reply)>>
         IN  IF response.exc # NoExc \/ ~response.has_response
             THEN StancesFailed(made)
             ELSE IF Len(parsed.for_stance) < MinStanceLen
                     /\ Len(parsed.against_stance) < MinStanceLen
             THEN LET retry == _retry_generate_stances(topic, retry_reply)
                  IN  [retry EXCEPT !.calls = made \o retry.calls]
             ELSE Stances(made, parsed.for_stance, parsed.against_stance)

generate_stances(topic, reply, retry_reply) ==
    IF blank(topic) THEN StancesFailed(<<>>)
    ELSE LET response == _make_api_request(reply)
             parsed   == parse_stances(response.response)
             made     == <<Call("stances", reply)>>
         IN  IF response.exc # NoExc \/ ~response.has_response
             THEN StancesFailed(made)
             ELSE IF Len(parsed.for_stance) < MinStanceLen
                     \/ Len(parsed.against_stance) < MinStanceLen
             THEN LET retry == _retry_generate_stances(topic, retry_reply)
                  IN  [retry EXCEPT !.calls = made \o retry.calls]
             ELSE Stances(made, parsed.for_stance, parsed.against_stance)

generate_system_prompt(stance, topic, reply) ==
    IF Len(stance) = 0 \/ Len(topic) = 0
    THEN [exc |-> ValueError, calls |-> <<>>, system_prompt |-> <<>>]
    ELSE LET response      == _make_api_request(reply)
             system_prompt == strip(response.response)
             made          == <<Call("system_prompt", reply)>>
         IN  IF response.exc # NoExc
             THEN [exc |-> response.exc, calls |-> made, system_prompt |-> <<>>]
             ELSE IF ~response.has_response
             THEN [exc |-> KeyError, calls |-> made, system_prompt |-> <<>>]
             ELSE IF Len(system_prompt) < MinPromptLen
             THEN [exc |-> ValueError, calls |-> made, system_prompt |-> <<>>]
             ELSE [exc |-> NoExc, calls |-> made, system_prompt |-> system_prompt]

(***************************************************************************)
(* DebateModel                                                             *)
(***************************************************************************)
\* a debate_history item: a {'side', 'text'} dict, or a raw string
Entry(side, text) == [dict |-> TRUE, side |-> side, text |-> text]

Legacy(raw) == [dict |-> FALSE, side |-> "", text |-> raw]

\* a backend call made with a prompt that quotes the debate so far
Prompted(site, reply, context) ==
    [site |-> site, reply |-> reply, context |-> context]

\* seq[-n:]
last(seq, n) ==
    SubSeq(seq, IF Len(seq) > n THEN Len(seq) - n + 1 ELSE 1, Len(seq))

\* seq[:n]
first(seq, n) == SubSeq(seq, 1, IF Len(seq) > n THEN n ELSE Len(seq))

side_chars(side) ==
    CASE side = "for" -> <<"f","o","r">>
      [] side = "against" -> <<"a","g","a","i","n","s","t">>
      [] side = "neutral" -> <<"n","e","u","t","r","a","l">>
      [] OTHER -> <<>>

Digits == <<"1","2","3","4","5","6","7","8","9">>

ResponseContextLimit == 3
EvaluationContextLimit == 3
SummaryContextLimit == 5
InterventionContextLimit == 3

\* the for loop of generate_response over the entries it was given
RECURSIVE context_lines(_, _)
context_lines(entries, i) ==
    IF i > Len(entries) THEN <<>>
    ELSE (IF entries[i].dict
          THEN upper(side_chars(entries[i].side)) \o <<":", " ">>
                 \o entries[i].text \o <<"\n">>
          ELSE <<"P","o","i","n","t"," ">> \o <<Digits[i]>> \o <<":", " ">>
                 \o entries[i].text \o <<"\n">>)
         \o context_lines(entries, i + 1)

context_formatted(context) ==
    context_lines(last(context, ResponseContextLimit), 1)

\* the for loop of the moderator's methods over the entries it was given
formatted_history(entries) ==
    [i \in 1..Len(entries) |->
        IF entries[i].dict
        THEN upper(side_chars(entries[i].side)) \o <<":", " ">> \o entries[i].text
        ELSE entries[i].text]

\* '\n'.join(lines)
RECURSIVE join(_)
join(lines) ==
    IF Len(lines) = 0 THEN <<>>
    ELSE IF Len(lines) = 1 THEN lines[1]
    ELSE lines[1] \o <<"\n">> \o join(Tail(lines))

evaluate_context(debate_history) ==
    join(formatted_history(last(debate_history, EvaluationContextLimit)))

\* generate_summary quoting the first entries of the debate
summary_context_oldest(debate_history) ==
    join(formatted_history(first(debate_history, SummaryContextLimit)))

summary_context(debate_history) ==
    join(formatted_history(last(debate_history, SummaryContextLimit)))

intervene_context(debate_history) ==
    join(formatted_history(last(debate_history, InterventionContextLimit)))

\* The results of the methods below carry the list they were handed (context,
\* debate_history) as the method leaves it: the caller holds the same object.

\* generate_response without the check for an empty 'response'
generate_response_accepts_empty(topic, context, stance, reply) ==
    IF Len(topic) = 0 \/ stance = "" \/ stance \notin {"for", "against"}
    THEN [context |-> context, exc |-> ValueError, calls |-> <<>>, response |-> <<>>]
    ELSE LET response == _make_api_request(reply)
             made     == <<Prompted("turn", reply, context_formatted(context))>>
         IN  IF response.exc # NoExc
             THEN [context |-> context, exc |-> response.exc, calls |-> made, response |-> <<>>]
             ELSE [context |-> context, exc |-> NoExc, calls |-> made, response |-> response.response]

generate_response(topic, context, stance, reply) ==
    IF Len(topic) = 0 \/ stance = "" \/ stance \notin {"for", "against"}
    THEN [context |-> context, exc |-> ValueError, calls |-> <<>>, response |-> <<>>]
    ELSE LET response == _make_api_request(reply)
             made     == <<Prompted("turn", reply, context_formatted(context))>>
         IN  IF response.exc # NoExc
             THEN [context |-> context, exc |-> response.exc, calls |-> made, response |-> <<>>]
             ELSE IF ~response.has_response \/ Len(response.response) = 0
             THEN [context |-> context, exc |-> ValueError, calls |-> made, response |-> <<>>]
             ELSE [context |-> context, exc |-> NoExc, calls |-> made, response |-> response.response]

(***************************************************************************)
(* ModeratorModel                                                          *)
(***************************************************************************)
\* evaluate_response without the check of current_argument
evaluate_response_unchecked(topic, current_argument, debate_history, reply) ==
    LET response == _make_api_request(reply)
        made     == <<Prompted("evaluate", reply,
                              evaluate_context(debate_history))>>
    IN  IF response.exc # NoExc
        THEN [debate_history |-> debate_history, exc |-> response.exc, calls |-> made, evaluation |-> NoResponseField]
        ELSE [debate_history |-> debate_history, exc |-> NoExc, calls |-> made, evaluation |-> reply]

evaluate_response(topic, current_argument, debate_history, reply) ==
    IF Len(current_argument) = 0
    THEN [debate_history |-> debate_history, exc |-> ValueError, calls |-> <<>>, evaluation |-> NoResponseField]
    ELSE LET response == _make_api_request(reply)
             made     == <<Prompted("evaluate", reply,
                              evaluate_context(debate_history))>>
         IN  IF response.exc # NoExc
             THEN [debate_history |-> debate_history, exc |-> response.exc, calls |-> made,
                   evaluation |-> NoResponseField]
             ELSE [debate_history |-> debate_history, exc |-> NoExc, calls |-> made, evaluation |-> reply]

\* generate_summary cutting the list it was handed down to the entries it quotes
generate_summary_truncates(topic, debate_history, reply) ==
    IF Len(debate_history) = 0
    THEN [debate_history |-> last(debate_history, SummaryContextLimit), exc |-> ValueError, calls |-> <<>>, summary |-> <<>>]
    ELSE LET response == _make_api_request(reply)
             made     == <<Prompted("summary", reply,
                              summary_context(debate_history))>>
         IN  IF response.exc # NoExc
             THEN [debate_history |-> last(debate_history, SummaryContextLimit), exc |-> response.exc, calls |-> made, summary |-> <<>>]
             ELSE IF ~response.has_response
             THEN [debate_history |-> last(debate_history, SummaryContextLimit), exc |-> KeyError, calls |-> made, summary |-> <<>>]
             ELSE [debate_history |-> last(debate_history, SummaryContextLimit), exc |-> NoExc, calls |-> made, summary |-> response.response]

generate_summary(topic, debate_history, reply) ==
    IF Len(debate_history) = 0
    THEN [debate_history |-> debate_history, exc |-> ValueError, calls |-> <<>>, summary |-> <<>>]
    ELSE LET response == _make_api_request(reply)
             made     == <<Prompted("summary", reply,
                              summary_context(debate_history))>>
         IN  IF response.exc # NoExc
             THEN [debate_history |-> debate_history, exc |-> response.exc, calls |-> made, summary |-> <<>>]
             ELSE IF ~response.has_response
             THEN [debate_history |-> debate_history, exc |-> KeyError, calls |-> made, summary |-> <<>>]
             ELSE [debate_history |-> debate_history, exc |-> NoExc, calls |-> made, summary |-> response.response]

\* should_intervene asking the backend even about an empty history
should_intervene_always_asks(topic, debate_history, reply) ==
    LET response == _make_api_request(reply)
        result   == lower(response.response)
        made     == <<Prompted("intervene", reply,
                              intervene_context(debate_history))>>
    IN  IF response.exc # NoExc \/ ~response.has_response
        THEN [debate_history |-> debate_history, exc |-> NoExc, calls |-> made, needs_intervention |-> FALSE,
              reason |-> Lit("Error in intervention check")]
        ELSE [debate_history |-> debate_history, exc |-> NoExc, calls |-> made,
              needs_intervention |-> contains(result, <<"t","r","u","e">>),
              reason |-> Txt(result)]

\* should_intervene without its except clause: a backend failure propagates
should_intervene_reraise(topic, debate_history, reply) ==
    LET response == _make_api_request(reply)
        result   == lower(response.response)
    IN  IF Len(debate_history) = 0
        THEN [debate_history |-> debate_history, exc |-> NoExc, calls |-> <<>>, needs_intervention |-> FALSE,
              reason |-> Lit("Debate hasn't started yet")]
        ELSE [debate_history |-> debate_history, exc |-> IF response.exc # NoExc THEN response.exc
                      ELSE IF ~response.has_response THEN KeyError ELSE NoExc,
              calls |-> <<Prompted("intervene", reply,
                              intervene_context(debate_history))>>,
              needs_intervention |-> contains(result, <<"t","r","u","e">>),
              reason |-> Txt(result)]

should_intervene(topic, debate_history, reply) ==
    IF Len(debate_history) = 0
    THEN [debate_history |-> debate_history, exc |-> NoExc, calls |-> <<>>, needs_intervention |-> FALSE,
          reason |-> Lit("Debate hasn't started yet")]
    ELSE LET response == _make_api_request(reply)
             result   == lower(response.response)
             made     == <<Prompted("intervene", reply,
                              intervene_context(debate_history))>>
         IN  IF response.exc # NoExc \/ ~response.has_response
             THEN [debate_history |-> debate_history, exc |-> NoExc, calls |-> made, needs_intervention |-> FALSE,
                   reason |-> Lit("Error in intervention check")]
             ELSE [debate_history |-> debate_history, exc |-> NoExc, calls |-> made,
                   needs_intervention |-> contains(result, <<"t","r","u","e">>),
                   reason |-> Txt(result)]

(***************************************************************************)
(* routes: requests, responses, handle_errors                              *)
(***************************************************************************)
NoRequest ==
    [op |-> "", has_topic |-> FALSE, topic |-> <<>>, has_side |-> FALSE,
     current_side |-> "", has_history |-> FALSE, debate_history |-> <<>>]

NoResponse ==
    [code |-> 0, status |-> "", message |-> Lit(""), argument |-> <<>>,
     evaluation |-> NoResponseField, summary |-> <<>>, next_side |-> "",
     has_history |-> FALSE, debate_history |-> <<>>,
     for_stance |-> <<>>, against_stance |-> <<>>,
     for_system_prompt |-> <<>>, against_system_prompt |-> <<>>]

NoLocals ==
    [filter_result |-> [exc |-> NoExc, calls |-> <<>>, is_appropriate |-> FALSE,
                        reason |-> Lit("")],
     for_stance |-> <<>>, against_stance |-> <<>>, for_system_prompt |-> <<>>,
     debate_history |-> <<>>, current_argument |-> <<>>,
     moderator_check |-> [needs_intervention |-> FALSE, reason |-> Lit("")]]

\* jsonify({'status': 'error', 'message': message}), code
ErrorResponse(code, message) ==
    [NoResponse EXCEPT !.code = code, !.status = "error", !.message = Lit(message)]

\* start_debate, lines 76-79: the answer to a topic the filter declined
TopicDeclined ==
    ErrorResponse(400,
        "Topic is not appropriate for debate. Please choose another topic.")

\* the decorator: what the caller gets when the handler raised exc
handle_errors(exc) ==
    IF exc = RequestsConnectionError
    THEN ErrorResponse(503,
           "AI service is currently unavailable. Please ensure Ollama is running.")
    ELSE ErrorResponse(500, "An unexpected error occurred. Please try again.")

\* next_side with the test on the wrong side: the same side speaks again
next_side_repeats(current_side) == IF current_side = "for" THEN "for" ELSE "against"

\* next_side naming 'against' whatever the side of the round
next_side_always_against(current_side) == "against"

\* 'for' if current_side == 'against' else 'against'
next_side(current_side) == IF current_side = "against" THEN "for" ELSE "against"

\* the new entry inserted at the front instead of appended
append_entry_front(debate_history, current_side, current_argument) ==
    <<Entry(current_side, current_argument)>> \o debate_history

\* debate_history.append({'side': current_side, 'text': current_argument})
append_entry(debate_history, current_side, current_argument) ==
    Append(debate_history, Entry(current_side, current_argument))

\* [h['text'] for h in debate_history]: a raw string has no key 'text'
texts_of(debate_history) ==
    IF \E i \in 1..Len(debate_history) : ~debate_history[i].dict
    THEN [exc |-> TypeError, texts |-> <<>>]
    ELSE [exc |-> NoExc,
          texts |-> [i \in 1..Len(debate_history) |->
                       Legacy(debate_history[i].text)]]

(***************************************************************************)
(* Inputs: the requests a client sends and the answers the backend gives   *)
(***************************************************************************)
Topics == {<<>>, <<" ">>, <<"t">>}

Sides == {"for", "against", "neutral"}

HistoryItems == {Entry("for", <<"a">>), Entry("against", <<"a">>), Legacy(<<"a">>)}

Histories == UNION {[1..n -> HistoryItems] : n \in 0..MaxHist}

TRUE_LOWER == <<"t","r","u","e">>
FALSE_LOWER == <<"f","a","l","s","e">>

VerdictTexts ==
    {<<" ">> \o TRUE_LOWER \o <<"\n">>, FALSE_LOWER, <<"T","r","u","e",".">>,
     <<"n","o">>, TRUE_LOWER \o <<" ">> \o FALSE_LOWER}

ABCDE == <<"a","b","c","d","e">>
VWXYZ == <<"v","w","x","y","z">>

StanceTexts ==
    {FOR_COLON \o <<" ">> \o ABCDE \o <<"\n">> \o AGAINST_COLON \o <<" ">> \o VWXYZ,
     FOR_COLON \o <<" ">> \o <<"a","b">> \o <<"\n">> \o AGAINST_COLON \o <<" ">> \o VWXYZ,
     FOR_COLON \o <<" ">> \o ABCDE \o <<"\n">> \o AGAINST_COLON \o <<" ">>,
     <<"f","o","r"," ">> \o ABCDE \o <<"\n","\n">> \o <<"a","g","a","i","n","s","t"," ">> \o VWXYZ,
     ABCDE \o <<"\n">> \o VWXYZ,
     ABCDE,
     FOR_COLON \o <<" ">> \o FOR_WORD \o <<"a","b","c","d">> \o <<"\n">>
         \o AGAINST_COLON \o <<" ">> \o VWXYZ}

RetryTexts == {ABCDE \o <<"\n">> \o VWXYZ, <<"a","\n"," ","\n","b">>, ABCDE, <<>>}

PromptTexts ==
    {rep("p", MinPromptLen), <<" ">> \o rep("p", MinPromptLen - 1) \o <<"\n">>}

TurnTexts == {<<"b">>, <<>>}

SummaryTexts == {<<"s">>}

EvaluationTexts == {<<"e">>}

(***************************************************************************)
(* The handlers                                                            *)
(***************************************************************************)
\* the locals of one running handler: each request is served in its own frame
Handler(pc_, req_, loc_, calls_, resp_) ==
    [pc |-> pc_, req |-> req_, loc |-> loc_, calls |-> calls_, resp |-> resp_]

IdleHandler == Handler("idle", NoRequest, NoLocals, <<>>, NoResponse)

\* what the caller of a debate session keeps between rounds: the side of its
\* first round, the side of its next round, its copy of the history, and the
\* sides of the entries its successful rounds appended
Caller(first_side) ==
    [first_side |-> first_side, current_side |-> first_side,
     debate_history |-> <<>>, appended |-> <<>>]

SessionIds == {1, 2}

Other(id) == IF id = 1 THEN 2 ELSE 1

\* no debate session: single requests only
NoSessions ==
    [active |-> 1, caller |-> [id \in SessionIds |-> Caller("")],
     parked |-> IdleHandler]

Init ==
    /\ pc = "idle"
    /\ req = NoRequest
    /\ loc = NoLocals
    /\ calls = <<>>
    /\ resp = NoResponse
    /\ failed_before = FALSE
    /\ sessions = NoSessions

\* history of the run: some backend call made so far has failed
NoteFailures ==
    failed_before' =
        (failed_before \/ \E i \in 1..Len(calls') : Failed(calls'[i].reply))

\* the handler returns response r
Return(r) ==
    /\ pc' = "idle"
    /\ resp' = r

\* the handler raises exc, which handle_errors turns into a response
Raise(exc) == Return(handle_errors(exc))

\* start_debate, lines 62-70: the topic of the request
start_request ==
    /\ pc = "idle"
    /\ \E has_topic \in BOOLEAN, topic \in Topics :
         /\ (~has_topic => topic = <<>>)
         /\ req' = [NoRequest EXCEPT !.op = "start", !.has_topic = has_topic,
                                     !.topic = topic]
         /\ loc' = NoLocals
         /\ calls' = <<>>
         /\ IF ~has_topic \/ blank(topic)
            THEN Return(ErrorResponse(400, "Please provide a valid debate topic"))
            ELSE pc' = "filter" /\ resp' = NoResponse
    /\ NoteFailures
    /\ UNCHANGED sessions

\* start_debate, lines 72-82: filter the topic
start_filter ==
    /\ pc = "filter"
    /\ \E reply \in Replies(VerdictTexts) :
         LET filter_result == filter_topic(req.topic, reply) IN
         /\ calls' = calls \o filter_result.calls
         /\ loc' = [loc EXCEPT !.filter_result = filter_result]
         /\ IF filter_result.exc # NoExc THEN Raise(filter_result.exc)
            ELSE IF ~filter_result.is_appropriate
            THEN Return(TopicDeclined)
            ELSE pc' = "stances" /\ UNCHANGED resp
    /\ UNCHANGED req
    /\ NoteFailures
    /\ UNCHANGED sessions

\* start_debate, lines 85-88: generate the two stances
start_stances ==
    /\ pc = "stances"
    /\ \E reply \in Replies(StanceTexts), retry_reply \in Replies(RetryTexts) :
         LET stances == generate_stances(req.topic, reply, retry_reply) IN
         /\ calls' = calls \o stances.calls
         /\ loc' = [loc EXCEPT !.for_stance = stances.for_stance,
                               !.against_stance = stances.against_stance]
         /\ IF stances.exc # NoExc THEN Raise(stances.exc)
            ELSE IF Len(stances.for_stance) = 0 \/ Len(stances.against_stance) = 0
            THEN Raise(ValueError)
            ELSE pc' = "prompt_for" /\ UNCHANGED resp
    /\ UNCHANGED req
    /\ NoteFailures
    /\ UNCHANGED sessions

\* start_debate, line 91: the system prompt of the FOR debater
start_prompt_for ==
    /\ pc = "prompt_for"
    /\ \E reply \in Replies(PromptTexts) :
         LET prompt == generate_system_prompt(loc.for_stance, req.topic, reply) IN
         /\ calls' = calls \o prompt.calls
         /\ loc' = [loc EXCEPT !.for_system_prompt = prompt.system_prompt]
         /\ IF prompt.exc # NoExc THEN Raise(prompt.exc)
            ELSE pc' = "prompt_against" /\ UNCHANGED resp
    /\ UNCHANGED req
    /\ NoteFailures
    /\ UNCHANGED sessions

\* start_debate, lines 92-103: the system prompt of the AGAINST debater
start_prompt_against ==
    /\ pc = "prompt_against"
    /\ \E reply \in Replies(PromptTexts) :
         LET prompt == generate_system_prompt(loc.against_stance, req.topic, reply) IN
         /\ calls' = calls \o prompt.calls
         /\ IF prompt.exc # NoExc THEN Raise(prompt.exc)
            ELSE Return([NoResponse EXCEPT
                     !.code = 200, !.status = "success",
                     !.for_stance = loc.for_stance,
                     !.against_stance = loc.against_stance,
                     !.for_system_prompt = loc.for_system_prompt,
                     !.against_system_prompt = prompt.system_prompt])
    /\ UNCHANGED <<req, loc>>
    /\ NoteFailures
    /\ UNCHANGED sessions

start_debate ==
    \/ start_request
    \/ start_filter
    \/ start_stances
    \/ start_prompt_for
    \/ start_prompt_against

\* debate_round, lines 118-137: the handler checks the fields of the request
receive_round(has_topic, topic, has_side, current_side, has_history, debate_history) ==
    /\ req' = [op |-> "round", has_topic |-> has_topic, topic |-> topic,
               has_side |-> has_side, current_side |-> current_side,
               has_history |-> has_history,
               debate_history |-> debate_history]
    /\ loc' = [NoLocals EXCEPT !.debate_history = debate_history]
    /\ calls' = <<>>
    /\ IF ~has_topic \/ ~has_side
       THEN Return(ErrorResponse(400, "Missing required debate information"))
       ELSE IF current_side \notin {"for", "against"}
       THEN Return(ErrorResponse(400, "Invalid debate side specified"))
       ELSE pc' = "turn" /\ resp' = NoResponse

\* debate_round, lines 118-137: a request arrives
round_request ==
    /\ pc = "idle"
    /\ \E has_topic \in BOOLEAN, topic \in Topics, has_side \in BOOLEAN,
          current_side \in Sides, has_history \in BOOLEAN,
          debate_history \in Histories :
         /\ (~has_topic => topic = <<>>)
         /\ (~has_side => current_side = "neutral")
         /\ (~has_history => debate_history = <<>>)
         /\ receive_round(has_topic, topic, has_side, current_side,
                          has_history, debate_history)
    /\ NoteFailures
    /\ UNCHANGED sessions

\* debate_round, lines 141-156: generate the argument and append it
round_turn ==
    /\ pc = "turn"
    /\ \E reply \in Replies(TurnTexts) :
         LET response == generate_response(req.topic, loc.debate_history,
                                           req.current_side, reply)
         IN
         /\ calls' = calls \o response.calls
         /\ IF response.exc # NoExc
            THEN Raise(response.exc) /\ UNCHANGED loc
            ELSE /\ loc' = [loc EXCEPT
                       !.current_argument = response.response,
                       !.debate_history = append_entry(loc.debate_history,
                                              req.current_side, response.response)]
                 /\ pc' = "intervene"
                 /\ UNCHANGED resp
    /\ UNCHANGED req
    /\ NoteFailures
    /\ UNCHANGED sessions

\* round_intervene with the test of line 161 inverted
round_intervene_inverted ==
    /\ pc = "intervene"
    /\ \E reply \in Replies(VerdictTexts) :
         LET history == texts_of(loc.debate_history)
             moderator_check == should_intervene(req.topic, history.texts, reply)
         IN
         IF history.exc # NoExc
         THEN Raise(history.exc) /\ UNCHANGED <<loc, calls>>
         ELSE /\ calls' = calls \o moderator_check.calls
              /\ loc' = [loc EXCEPT !.moderator_check =
                           [needs_intervention |-> moderator_check.needs_intervention,
                            reason |-> moderator_check.reason]]
              /\ pc' = IF moderator_check.needs_intervention
                       THEN "evaluate" ELSE "summary"
              /\ UNCHANGED resp
    /\ UNCHANGED req
    /\ NoteFailures
    /\ UNCHANGED sessions

\* debate_round, lines 159-161: ask the moderator whether to intervene
round_intervene ==
    /\ pc = "intervene"
    /\ \E reply \in Replies(VerdictTexts) :
         LET history == texts_of(loc.debate_history)
             moderator_check == should_intervene(req.topic, history.texts, reply)
         IN
         IF history.exc # NoExc
         THEN Raise(history.exc) /\ UNCHANGED <<loc, calls>>
         ELSE /\ calls' = calls \o moderator_check.calls
              /\ loc' = [loc EXCEPT !.moderator_check =
                           [needs_intervention |-> moderator_check.needs_intervention,
                            reason |-> moderator_check.reason]]
              /\ IF moderator_check.exc # NoExc THEN Raise(moderator_check.exc)
                 ELSE /\ pc' = IF moderator_check.needs_intervention
                               THEN "summary" ELSE "evaluate"
                      /\ UNCHANGED resp
    /\ UNCHANGED req
    /\ NoteFailures
    /\ UNCHANGED sessions

\* debate_round, lines 163-171: the moderator intervenes with a summary
round_summary ==
    /\ pc = "summary"
    /\ \E reply \in Replies(SummaryTexts) :
         LET summary == generate_summary(req.topic,
                                         texts_of(loc.debate_history).texts, reply)
         IN
         /\ calls' = calls \o summary.calls
         /\ IF summary.exc # NoExc THEN Raise(summary.exc)
            ELSE Return([NoResponse EXCEPT
                     !.code = 200, !.status = "moderator_intervention",
                     !.argument = loc.current_argument,
                     !.message = loc.moderator_check.reason,
                     !.summary = summary.summary,
                     !.next_side = next_side(req.current_side)])
    /\ UNCHANGED <<req, loc>>
    /\ NoteFailures
    /\ UNCHANGED sessions

\* debate_round, lines 174-186: the moderator evaluates the argument
round_evaluate ==
    /\ pc = "evaluate"
    /\ \E reply \in Replies(EvaluationTexts) :
         LET evaluation == evaluate_response(req.topic, loc.current_argument,
                               texts_of(loc.debate_history).texts, reply)
         IN
         /\ calls' = calls \o evaluation.calls
         /\ IF evaluation.exc # NoExc THEN Raise(evaluation.exc)
            ELSE Return([NoResponse EXCEPT
                     !.code = 200, !.status = "success",
                     !.argument = loc.current_argument,
                     !.evaluation = evaluation.evaluation,
                     !.next_side = next_side(req.current_side),
                     !.has_history = TRUE,
                     !.debate_history = loc.debate_history])
    /\ UNCHANGED <<req, loc>>
    /\ NoteFailures
    /\ UNCHANGED sessions

debate_round ==
    \/ round_request
    \/ round_turn
    \/ round_intervene
    \/ round_summary
    \/ round_evaluate

\* end_debate, lines 196-204: the fields of the request
end_request ==
    /\ pc = "idle"
    /\ \E has_topic \in BOOLEAN, topic \in Topics, has_history \in BOOLEAN,
          debate_history \in Histories :
         /\ (~has_topic => topic = <<>>)
         /\ (~has_history => debate_history = <<>>)
         /\ req' = [NoRequest EXCEPT !.op = "end", !.has_topic = has_topic,
                                     !.topic = topic,
                                     !.has_history = has_history,
                                     !.debate_history = debate_history]
         /\ loc' = [NoLocals EXCEPT !.debate_history = debate_history]
         /\ calls' = <<>>
         /\ IF ~has_topic \/ ~has_history
            THEN Return(ErrorResponse(400,
                   "Missing required debate information for summary"))
            ELSE pc' = "final_summary" /\ resp' = NoResponse
    /\ NoteFailures
    /\ UNCHANGED sessions

\* end_debate, lines 205-213: the final summary
end_summary ==
    /\ pc = "final_summary"
    /\ \E reply \in Replies(SummaryTexts) :
         LET summary == generate_summary(req.topic, loc.debate_history, reply) IN
         /\ calls' = calls \o summary.calls
         /\ IF summary.exc # NoExc THEN Raise(summary.exc)
            ELSE Return([NoResponse EXCEPT
                     !.code = 200, !.status = "success",
                     !.summary = summary.summary])
    /\ UNCHANGED <<req, loc>>
    /\ NoteFailures
    /\ UNCHANGED sessions

end_debate ==
    \/ end_request
    \/ end_summary

Next ==
    \/ start_debate
    \/ debate_round
    \/ end_debate

Spec == Init /\ [][Next]_vars

(***************************************************************************)
(* Properties                                                              *)
(***************************************************************************)
Sites(cs) == {cs[i].site : i \in 1..Len(cs)}

CountOf(cs, site) == Cardinality({i \in 1..Len(cs) : cs[i].site = site})

\* a debate_round that has returned a round outcome
RoundOutcome ==
    /\ req.op = "round"
    /\ pc = "idle"
    /\ resp.status \in {"success", "moderator_intervention"}

\* C1: every round outcome, Evaluated or Intervened, names as next_side the
\* side opposite to current_side, never current_side itself.
NextSideAlternates ==
    RoundOutcome =>
        /\ resp.next_side # req.current_side
        /\ (req.current_side = "for" => resp.next_side = "against")
        /\ (req.current_side = "against" => resp.next_side = "for")

NextSideAlternatesWitness ==
    /\ RoundOutcome
    /\ resp.status = "moderator_intervention"
    /\ req.current_side = "for"
    /\ resp.next_side = "against"

\* the filter call of this start_debate was answered and approved the topic
FilterApproved ==
    /\ Len(calls) >= 1
    /\ calls[1].site = "filter"
    /\ ~Failed(calls[1].reply)
    /\ loc.filter_result.exc = NoExc
    /\ loc.filter_result.is_appropriate

\* C2: in start_debate the stance and system-prompt calls happen only after
\* the filter approved the topic; when the filter declines, or the backend
\* fails during the filter call, no such call is made and no stances are
\* returned.
StartGatedByFilter ==
    req.op = "start" =>
        /\ (pc \in {"stances", "prompt_for", "prompt_against"} => FilterApproved)
        /\ (Sites(calls) \cap {"stances", "stances_retry", "system_prompt"} # {}
              => FilterApproved)
        /\ (Len(calls) >= 1 /\ ~FilterApproved =>
              /\ Len(calls) = 1
              /\ pc = "idle"
              /\ resp.status # "success"
              /\ resp.for_stance = <<>> /\ resp.against_stance = <<>>)

StartGatedByFilterWitness ==
    /\ req.op = "start"
    /\ FilterApproved
    /\ Len(calls) >= 2
    /\ calls[2].site = "stances"

\* C3: filter_topic on a topic that is not blank never raises; whenever the
\* backend fails (no connection, timeout, non-2xx, malformed JSON, no
\* 'response' field) it returns is_appropriate = false.
FilterTopicNeverRaises ==
    (req.op = "start" /\ pc # "filter" /\ ~blank(req.topic) /\ req.has_topic) =>
        /\ Len(calls) >= 1
        /\ calls[1].site = "filter"
        /\ loc.filter_result.exc = NoExc
        /\ (Failed(calls[1].reply) =>
              /\ ~loc.filter_result.is_appropriate
              /\ resp = TopicDeclined)

FilterTopicNeverRaisesWitness ==
    /\ req.op = "start"
    /\ Len(calls) = 1
    /\ calls[1].reply.fault = RequestsTimeout
    /\ loc.filter_result.exc = NoExc
    /\ ~loc.filter_result.is_appropriate

\* the intervention check of this debate_round met a backend failure
InterveneFailed ==
    /\ req.op = "round"
    /\ Len(calls) >= 2
    /\ calls[2].site = "intervene"
    /\ Failed(calls[2].reply)

\* C4: a backend failure during should_intervene does not abort the round:
\* the check answers needs_intervention = false with the reason "Error in
\* intervention check" (the literal of the code, capitalised), the round goes
\* on to evaluate_response, and ends Evaluated when that succeeds.
InterventionCheckFailsSoft ==
    InterveneFailed =>
        /\ loc.moderator_check =
             [needs_intervention |-> FALSE,
              reason |-> Lit("Error in intervention check")]
        /\ pc \in {"evaluate", "idle"}
        /\ (pc = "idle" =>
              /\ Len(calls) = 3
              /\ calls[3].site = "evaluate"
              /\ (calls[3].reply.fault = NoExc => resp.status = "success"))

InterventionCheckFailsSoftWitness ==
    /\ InterveneFailed
    /\ calls[2].reply.fault = RequestsConnectionError
    /\ pc = "idle"
    /\ resp.status = "success"

\* C5: after every round outcome, Evaluated or Intervened, the history the
\* caller gets with the outcome is one entry longer than the one passed in.
HistoryGrowsByOne ==
    RoundOutcome =>
        /\ resp.has_history
        /\ Len(resp.debate_history) = Len(req.debate_history) + 1

\* the turn of this debate_round was generated
TurnGenerated ==
    /\ req.op = "round"
    /\ Len(calls) >= 1
    /\ calls[1].site = "turn"
    /\ ~Failed(calls[1].reply)
    /\ Len(calls[1].reply.response) > 0

\* C6: the history debate_round produces is the history of the request,
\* unchanged, followed by the one entry {side: current_side, text: the
\* argument generated in this round}; end_debate leaves the history as it is.
HistoryAppendOnly ==
    /\ TurnGenerated =>
         /\ loc.debate_history =
              req.debate_history
                \o <<Entry(req.current_side, calls[1].reply.response)>>
         /\ (resp.has_history => resp.debate_history = loc.debate_history)
    /\ req.op = "end" => loc.debate_history = req.debate_history /\ ~resp.has_history

HistoryAppendOnlyWitness ==
    /\ TurnGenerated
    /\ RoundOutcome
    /\ resp.has_history
    /\ Len(req.debate_history) >= 1
    /\ Len(resp.debate_history) = Len(req.debate_history) + 1

\* C7: what the caller of start_debate gets when the backend is unreachable
\* or times out differs from what it gets when the filter declines the topic.
UnavailableDistinctFromDeclined ==
    (/\ req.op = "start"
     /\ pc = "idle"
     /\ Len(calls) = 1
     /\ calls[1].reply.fault \in {RequestsConnectionError, RequestsTimeout})
        => resp # TopicDeclined

\* the handler stopped at a call whose connection to the backend failed
ConnectionFailed ==
    /\ pc = "idle"
    /\ Len(calls) >= 1
    /\ calls[Len(calls)].reply.fault = RequestsConnectionError
    /\ calls[Len(calls)].site \in
         {"stances", "stances_retry", "system_prompt", "turn", "summary", "evaluate"}

\* C8: an operation that fails because the connection to the backend failed
\* answers with the service-unavailable outcome, 503, not the generic 500.
ConnectionFailureIs503 ==
    ConnectionFailed => resp.code = 503

\* the primary answer of generate_stances, when the backend gave one
PrimaryParsed == parse_stances(calls[2].reply.response)

PrimaryAnswered ==
    /\ req.op = "start"
    /\ Len(calls) >= 2
    /\ calls[2].site = "stances"
    /\ ~Failed(calls[2].reply)

PrimaryTooShort ==
    \/ Len(PrimaryParsed.for_stance) < MinStanceLen
    \/ Len(PrimaryParsed.against_stance) < MinStanceLen

\* C9: a primary answer with a statement shorter than 5 characters is followed
\* by exactly one retry call, one with two statements of 5 or more by none;
\* generate_stances never makes more than 2 calls and then returns or fails.
StanceRetryBound ==
    req.op = "start" =>
        /\ CountOf(calls, "stances") <= 1
        /\ CountOf(calls, "stances_retry") <= 1
        /\ ("stances_retry" \in Sites(calls) =>
              Len(calls) >= 3 /\ calls[3].site = "stances_retry")
        /\ (PrimaryAnswered /\ PrimaryTooShort =>
              CountOf(calls, "stances_retry") = 1)
        /\ (PrimaryAnswered /\ ~PrimaryTooShort =>
              CountOf(calls, "stances_retry") = 0)
        /\ ("stances" \in Sites(calls) => pc \in {"idle", "prompt_for", "prompt_against"})

StanceRetryBoundWitness ==
    /\ PrimaryAnswered
    /\ Len(PrimaryParsed.for_stance) >= MinStanceLen
    /\ Len(PrimaryParsed.against_stance) < MinStanceLen
    /\ CountOf(calls, "stances_retry") = 1
    /\ pc = "prompt_for"

\* C10: the two statements a successful generate_stances returns, from the
\* primary answer or from the retry, each have 5 or more characters.
ReturnedStancesValid ==
    (req.op = "start" /\ pc \in {"prompt_for", "prompt_against"}) =>
        /\ Len(strip(loc.for_stance)) >= MinStanceLen
        /\ Len(strip(loc.against_stance)) >= MinStanceLen

\* C13: debate_round answers a request whose topic is absent or empty the way
\* it answers one whose current_side is not 'for' or 'against': with the
\* validation error (400), not the generic error, and appends nothing.
RoundRejectsBadInput ==
    (/\ req.op = "round"
     /\ pc = "idle"
     /\ (~req.has_topic \/ Len(req.topic) = 0
           \/ req.current_side \notin {"for", "against"}))
        => /\ resp.code = 400
           /\ loc.debate_history = req.debate_history

\* C14: a debate_round calls generate_response, appends the entry, calls
\* should_intervene, and then exactly one of generate_summary (if and only if
\* needs_intervention, outcome Intervened) and evaluate_response (otherwise,
\* outcome Evaluated).
RoundStepOrder ==
    req.op = "round" =>
        /\ Len(calls) <= 3
        /\ (Len(calls) >= 1 => calls[1].site = "turn")
        /\ (Len(calls) >= 2 =>
              /\ calls[2].site = "intervene"
              /\ loc.debate_history =
                   Append(req.debate_history,
                          Entry(req.current_side, calls[1].reply.response)))
        /\ (pc = "summary" => loc.moderator_check.needs_intervention)
        /\ (pc = "evaluate" => ~loc.moderator_check.needs_intervention)
        /\ (Len(calls) = 3 =>
              /\ calls[3].site \in {"summary", "evaluate"}
              /\ (calls[3].site = "summary"
                    <=> loc.moderator_check.needs_intervention))
        /\ (RoundOutcome =>
              /\ Len(calls) = 3
              /\ (resp.status = "moderator_intervention"
                    <=> calls[3].site = "summary")
              /\ (resp.status = "success" <=> calls[3].site = "evaluate"))

RoundStepOrderWitness ==
    /\ RoundOutcome
    /\ resp.status = "moderator_intervention"
    /\ loc.moderator_check.needs_intervention
    /\ Len(calls) = 3
    /\ calls[1].site = "turn" /\ calls[2].site = "intervene"
    /\ calls[3].site = "summary"

\* statements of 5 or more characters, on one line, without blanks around
Statements == {ABCDE, VWXYZ, FOR_WORD \o <<"a","b","c","d">>}

\* "FOR: X\nAGAINST: Y"
WellFormed(X, Y) ==
    FOR_COLON \o <<" ">> \o X \o <<"\n">> \o AGAINST_COLON \o <<" ">> \o Y

\* C15: when the primary answer is exactly "FOR: X\nAGAINST: Y",
\* generate_stances returns (X, Y) and makes no retry call.
WellFormedStancesParsedExactly ==
    \A X \in Statements, Y \in Statements :
        (PrimaryAnswered /\ calls[2].reply.response = WellFormed(X, Y)) =>
            /\ "stances_retry" \notin Sites(calls)
            /\ loc.for_stance = X
            /\ loc.against_stance = Y

\* C18: after earlier backend calls have failed, a call the backend answers
\* is used as answered: no failure is left over from one call to the next.
NoPoisonedClient ==
    \A i \in 1..Len(calls) :
        LET call == calls[i] IN
        ~Failed(call.reply) =>
            /\ (call.site = "filter" =>
                  loc.filter_result.reason
                      # Lit("Unable to verify topic appropriateness"))
            /\ (call.site = "turn" /\ Len(call.reply.response) > 0 =>
                  loc.current_argument = call.reply.response)
            /\ (call.site = "intervene" =>
                  loc.moderator_check.reason = Txt(lower(call.reply.response)))
            /\ (call.site = "evaluate" /\ pc = "idle" =>
                  resp.status = "success" /\ resp.evaluation = call.reply)
            /\ (call.site = "summary" /\ pc = "idle" =>
                  resp.code = 200 /\ resp.summary = call.reply.response)

NoPoisonedClientWitness ==
    /\ failed_before
    /\ req.op = "end"
    /\ pc = "idle"
    /\ Len(calls) = 1
    /\ ~Failed(calls[1].reply)
    /\ resp.code = 200
    /\ resp.summary = calls[1].reply.response

(***************************************************************************)
(* The model classes called directly: Init draws the arguments of one      *)
(* call, one action per method applies it to a reply of the backend        *)
(***************************************************************************)
UnitCall(op, topic, stance, side, current_argument, debate_history) ==
    [op |-> op, topic |-> topic, stance |-> stance, side |-> side,
     current_argument |-> current_argument, debate_history |-> debate_history]

\* histories longer than every context limit, each position told apart
ContextItems ==
    {Entry("for", <<"a">>), Entry("against", <<"b">>), Legacy(<<"c">>)}

ContextHistories == UNION {[1..n -> ContextItems] : n \in 0..MaxCtx}

UnitCalls ==
    {UnitCall("_make_api_request", <<>>, <<>>, "", <<>>, <<>>)}
    \cup {UnitCall(op, topic, <<>>, "", <<>>, <<>>) :
            op \in {"filter_topic", "generate_stances"}, topic \in Topics}
    \cup {UnitCall("generate_system_prompt", topic, stance, "", <<>>, <<>>) :
            topic \in Topics, stance \in {<<>>, ABCDE}}
    \cup {UnitCall("generate_response", topic, <<>>, side, <<>>, h) :
            topic \in Topics, side \in Sides \cup {""}, h \in Histories}
    \cup {UnitCall("evaluate_response", topic, <<>>, "", argument, h) :
            topic \in Topics, argument \in {<<>>, <<"b">>}, h \in Histories}
    \cup {UnitCall(op, topic, <<>>, "", <<>>, h) :
            op \in {"generate_summary", "should_intervene"},
            topic \in Topics, h \in Histories}
    \cup {UnitCall("generate_response", <<"t">>, <<>>, "for", <<>>, h) :
            h \in ContextHistories}
    \cup {UnitCall("evaluate_response", <<"t">>, <<>>, "", <<"b">>, h) :
            h \in ContextHistories}
    \cup {UnitCall(op, <<"t">>, <<>>, "", <<>>, h) :
            op \in {"generate_summary", "should_intervene"},
            h \in ContextHistories}

UnitInit ==
    /\ pc = "call"
    /\ req \in UnitCalls
    /\ loc = NoLocals
    /\ calls = <<>>
    /\ resp = NoResponse
    /\ failed_before = FALSE
    /\ sessions = NoSessions

\* the method returns or raises: result, with the backend calls it made
UnitReturn(result) ==
    /\ pc' = "returned"
    /\ loc' = result
    /\ calls' = result.calls
    /\ UNCHANGED <<req, resp>>
    /\ NoteFailures
    /\ UNCHANGED sessions

call_make_api_request ==
    /\ pc = "call" /\ req.op = "_make_api_request"
    /\ \E reply \in Replies(SummaryTexts) :
         LET response == _make_api_request(reply) IN
         UnitReturn([exc |-> response.exc, calls |-> <<Call("client", reply)>>,
                     has_response |-> response.has_response,
                     response |-> response.response])

call_filter_topic ==
    /\ pc = "call" /\ req.op = "filter_topic"
    /\ \E reply \in Replies(VerdictTexts) :
         UnitReturn(filter_topic(req.topic, reply))

call_generate_stances ==
    /\ pc = "call" /\ req.op = "generate_stances"
    /\ \E reply \in Replies(StanceTexts), retry_reply \in Replies(RetryTexts) :
         UnitReturn(generate_stances(req.topic, reply, retry_reply))

call_generate_system_prompt ==
    /\ pc = "call" /\ req.op = "generate_system_prompt"
    /\ \E reply \in Replies(PromptTexts) :
         UnitReturn(generate_system_prompt(req.stance, req.topic, reply))

call_generate_response ==
    /\ pc = "call" /\ req.op = "generate_response"
    /\ \E reply \in Replies(TurnTexts) :
         UnitReturn(generate_response(req.topic, req.debate_history, req.side,
                                      reply))

call_evaluate_response ==
    /\ pc = "call" /\ req.op = "evaluate_response"
    /\ \E reply \in Replies(EvaluationTexts) :
         UnitReturn(evaluate_response(req.topic, req.current_argument,
                                      req.debate_history, reply))

call_generate_summary ==
    /\ pc = "call" /\ req.op = "generate_summary"
    /\ \E reply \in Replies(SummaryTexts) :
         UnitReturn(generate_summary(req.topic, req.debate_history, reply))

call_should_intervene ==
    /\ pc = "call" /\ req.op = "should_intervene"
    /\ \E reply \in Replies(VerdictTexts) :
         UnitReturn(should_intervene(req.topic, req.debate_history, reply))

UnitNext ==
    \/ call_make_api_request
    \/ call_filter_topic
    \/ call_generate_stances
    \/ call_generate_system_prompt
    \/ call_generate_response
    \/ call_evaluate_response
    \/ call_generate_summary
    \/ call_should_intervene

SpecUnit == UnitInit /\ [][UnitNext]_vars

Returned(op) == pc = "returned" /\ req.op = op

\* C11: should_intervene on an empty history answers needs_intervention =
\* false with the reason "Debate hasn't started yet" (the literal of the
\* code, capitalised) and makes no backend call.
EmptyHistoryNoIntervention ==
    (Returned("should_intervene") /\ Len(req.debate_history) = 0) =>
        /\ loc.exc = NoExc
        /\ ~loc.needs_intervention
        /\ loc.reason = Lit("Debate hasn't started yet")
        /\ Len(calls) = 0

EmptyHistoryNoInterventionWitness ==
    /\ Returned("should_intervene")
    /\ Len(req.debate_history) = 0
    /\ ~loc.needs_intervention
    /\ Len(calls) = 0

\* the arguments of the call are ones the method rejects
InvalidArguments ==
    \/ req.op = "filter_topic" /\ blank(req.topic)
    \/ req.op = "generate_stances" /\ Len(req.topic) = 0
    \/ req.op = "generate_system_prompt"
         /\ (Len(req.stance) = 0 \/ Len(req.topic) = 0)
    \/ req.op = "generate_response"
         /\ (Len(req.topic) = 0 \/ req.side \notin {"for", "against"})
    \/ req.op = "evaluate_response" /\ Len(req.current_argument) = 0
    \/ req.op = "generate_summary" /\ Len(req.debate_history) = 0

\* C12: a method given invalid input (blank topic, empty stance, a side that
\* is not 'for' or 'against', empty argument, empty history) raises the
\* validation error at once, having made no backend call.
ValidationBeforeBackend ==
    (pc = "returned" /\ InvalidArguments) =>
        /\ loc.exc = ValueError
        /\ Len(calls) = 0

ValidationBeforeBackendWitness ==
    /\ Returned("evaluate_response")
    /\ Len(req.current_argument) = 0
    /\ loc.exc = ValueError
    /\ Len(calls) = 0

\* "true" occurs in the lower-cased text, spelled out character by character
HasTrue(text) ==
    \E i \in 1..(Len(text) - 3) :
        /\ text[i] \in {"t", "T"}
        /\ text[i + 1] \in {"r", "R"}
        /\ text[i + 2] \in {"u", "U"}
        /\ text[i + 3] \in {"e", "E"}

HasFalse(text) ==
    \E i \in 1..(Len(text) - 4) :
        /\ text[i] \in {"f", "F"}
        /\ text[i + 1] \in {"a", "A"}
        /\ text[i + 2] \in {"l", "L"}
        /\ text[i + 3] \in {"s", "S"}
        /\ text[i + 4] \in {"e", "E"}

\* the backend answered the one call of filter_topic or should_intervene
VerdictAnswered ==
    /\ pc = "returned"
    /\ req.op \in {"filter_topic", "should_intervene"}
    /\ Len(calls) = 1
    /\ ~Failed(calls[1].reply)

Verdict ==
    IF req.op = "filter_topic" THEN loc.is_appropriate ELSE loc.needs_intervention

\* C17: is_appropriate and needs_intervention are true exactly when "true"
\* occurs in the lower-cased answer: an answer with both "true" and "false"
\* gives true, one with neither gives false.
VerdictIsTrueSubstring ==
    VerdictAnswered =>
        LET text == calls[1].reply.response IN
        /\ Verdict <=> HasTrue(text)
        /\ (HasTrue(text) /\ HasFalse(text) => Verdict)
        /\ (~HasTrue(text) /\ ~HasFalse(text) => ~Verdict)

VerdictIsTrueSubstringWitness ==
    /\ VerdictAnswered
    /\ req.op = "filter_topic"
    /\ HasTrue(calls[1].reply.response)
    /\ HasFalse(calls[1].reply.response)
    /\ loc.is_appropriate

\* C19: generate_stances fails with another kind of error when the backend is
\* unreachable or timed out than when it answered with unusable content
\* (ValueError): the unavailability is propagated, not converted.
StanceFailuresDistinguishable ==
    (/\ Returned("generate_stances")
     /\ Len(calls) >= 1
     /\ calls[Len(calls)].reply.fault
          \in {RequestsConnectionError, RequestsTimeout})
        => /\ loc.exc \in {BuiltinConnectionError, BuiltinTimeoutError}
           /\ loc.exc # ValueError

\* C20: _make_api_request raises ConnectionError for a connection failure,
\* TimeoutError for a timeout, ValueError for a body that is not JSON and the
\* original exception for anything else (a non-2xx status); no fault gives a
\* normal result.
ClientMapsFaults ==
    Returned("_make_api_request") =>
        LET fault == calls[1].reply.fault IN
        /\ (fault = RequestsConnectionError => loc.exc = BuiltinConnectionError)
        /\ (fault = RequestsTimeout => loc.exc = BuiltinTimeoutError)
        /\ (fault = JSONDecodeError => loc.exc = ValueError)
        /\ (fault = RequestsHTTPError => loc.exc = RequestsHTTPError)
        /\ (fault # NoExc => loc.exc # NoExc /\ ~loc.has_response)
        /\ (fault = NoExc => loc.exc = NoExc)

ClientMapsFaultsWitness ==
    /\ Returned("_make_api_request")
    /\ calls[1].reply.fault = JSONDecodeError
    /\ loc.exc = ValueError

\* the method built its prompt and sent it to the backend
PromptSent ==
    /\ pc = "returned"
    /\ req.op \in {"generate_response", "evaluate_response",
                   "generate_summary", "should_intervene"}
    /\ Len(calls) = 1

\* the line of the context quotes this entry: it ends with the entry's text
Quotes(line, entry) ==
    /\ Len(line) >= Len(entry.text)
    /\ SubSeq(line, Len(line) - Len(entry.text) + 1, Len(line)) = entry.text

ContextEntries == SelectSeq(split(calls[1].context), LAMBDA l : Len(l) > 0)

\* C16: at each formatting site (limit 3 in generate_response,
\* evaluate_response and should_intervene, limit 5 in generate_summary) the
\* context holds exactly min(len(history), limit) entries, the most recent
\* ones, in chronological order.
ContextIsMostRecent ==
    PromptSent =>
        LET h     == req.debate_history
            limit == IF req.op = "generate_summary" THEN 5 ELSE 3
            n     == IF Len(h) < limit THEN Len(h) ELSE limit
        IN  /\ Len(ContextEntries) = n
            /\ \A k \in 1..n : Quotes(ContextEntries[k], h[Len(h) - n + k])

ContextIsMostRecentWitness ==
    /\ PromptSent
    /\ req.op = "generate_summary"
    /\ Len(req.debate_history) > 5
    /\ Len(ContextEntries) = 5
    /\ ContextEntries[1] # ContextEntries[5]

\* the backend answered the turn call without a 'response' text, or an empty one
EmptyTurn ==
    /\ req.op = "round"
    /\ Len(calls) >= 1
    /\ calls[1].site = "turn"
    /\ calls[1].reply.fault = NoExc
    /\ (~calls[1].reply.has_response \/ Len(calls[1].reply.response) = 0)

\* C21: a turn whose 'response' is missing or empty makes generate_response
\* raise and debate_round fail with nothing appended; every entry a round
\* appends has a non-empty text and the side 'for' or 'against'.
EmptyTurnNeverAccepted ==
    /\ EmptyTurn =>
          /\ pc = "idle"
          /\ Len(calls) = 1
          /\ resp.status = "error"
          /\ loc.debate_history = req.debate_history
    /\ (req.op = "round" /\ Len(loc.debate_history) > Len(req.debate_history)) =>
          LET entry == loc.debate_history[Len(loc.debate_history)] IN
          /\ entry.dict
          /\ Len(entry.text) > 0
          /\ entry.side \in {"for", "against"}

EmptyTurnNeverAcceptedWitness ==
    /\ EmptyTurn
    /\ calls[1].reply = Answer(<<>>)
    /\ resp.code = 500
    /\ loc.debate_history = req.debate_history

\* the request of a round carries a raw string among its history entries
\* and every backend call of the round was answered
LegacyRoundAnswered ==
    /\ req.op = "round"
    /\ pc = "idle"
    /\ TurnGenerated
    /\ \E i \in 1..Len(req.debate_history) : ~req.debate_history[i].dict
    /\ \A i \in 1..Len(calls) : ~Failed(calls[i].reply)

\* C25: a round whose history holds a raw string among its entries, with a
\* healthy backend, ends with a round outcome (Evaluated or Intervened) and
\* the new entry appended, not with an error after the turn was generated.
LegacyItemsThroughRound ==
    LegacyRoundAnswered =>
        /\ resp.status \in {"success", "moderator_intervention"}
        /\ Len(loc.debate_history) = Len(req.debate_history) + 1

\* C26: whatever the backend does, start_debate makes at most 5 backend calls
\* (filter, stances, one retry, two prompts), debate_round at most 3 (turn,
\* intervention check, summary or evaluation) and end_debate at most 1.
BackendCallsBounded ==
    /\ req.op = "start" =>
          /\ Len(calls) <= 5
          /\ CountOf(calls, "filter") <= 1
          /\ CountOf(calls, "stances") <= 1
          /\ CountOf(calls, "stances_retry") <= 1
          /\ CountOf(calls, "system_prompt") <= 2
    /\ req.op = "round" =>
          /\ Len(calls) <= 3
          /\ CountOf(calls, "turn") <= 1
          /\ CountOf(calls, "intervene") <= 1
          /\ CountOf(calls, "summary") + CountOf(calls, "evaluate") <= 1
    /\ req.op = "end" => Len(calls) <= 1

BackendCallsBoundedWitness ==
    /\ req.op = "start"
    /\ pc = "idle"
    /\ Len(calls) = 5
    /\ CountOf(calls, "stances_retry") = 1
    /\ \E i \in 1..Len(calls) : calls[i].reply.fault # NoExc

\* the method was handed a history and has returned or raised
CollaboratorReturned ==
    /\ pc = "returned"
    /\ req.op \in {"generate_response", "evaluate_response",
                   "generate_summary", "should_intervene"}

\* the list the method was handed, as the caller finds it afterwards
HistoryAfterCall ==
    IF req.op = "generate_response" THEN loc.context ELSE loc.debate_history

\* C23: generate_response, evaluate_response, generate_summary and
\* should_intervene leave the history they are handed unchanged (same
\* length, same entries, same order) on every path, error paths included.
CollaboratorsOnlyRead ==
    CollaboratorReturned =>
        /\ Len(HistoryAfterCall) = Len(req.debate_history)
        /\ HistoryAfterCall = req.debate_history

CollaboratorsOnlyReadWitness ==
    /\ CollaboratorReturned
    /\ req.op = "generate_summary"
    /\ Len(req.debate_history) > SummaryContextLimit
    /\ loc.exc # NoExc
    /\ loc.debate_history = req.debate_history

(***************************************************************************)
(* Debate sessions: two callers, each playing the rounds of its own debate *)
(* with its own history, served by handlers that run interleaved           *)
(***************************************************************************)
\* what the backend answers during the sessions
SessionBackend ==
    {Fault(RequestsConnectionError), Answer(<<"b">>), Answer(FALSE_LOWER),
     Answer(<<"T","r","u","e",".">>), Answer(<<"s">>), Answer(<<"e">>)}

SessionsInit ==
    /\ pc = "idle"
    /\ req = NoRequest
    /\ loc = NoLocals
    /\ calls = <<>>
    /\ resp = NoResponse
    /\ failed_before = FALSE
    /\ \E side \in [SessionIds -> {"for", "against"}] :
         /\ side[1] # side[2]
         /\ sessions = [active |-> 1,
                        caller |-> [id \in SessionIds |-> Caller(side[id])],
                        parked |-> IdleHandler]

\* the last backend call of the step was answered by the session backend
SessionAnswered == calls'[Len(calls')].reply \in SessionBackend

\* the caller of the running session sends its next round: the side it was
\* told to use next and its copy of the history
session_round_request ==
    /\ pc = "idle"
    /\ req.op = ""
    /\ LET caller == sessions.caller[sessions.active] IN
       /\ Len(caller.appended) < MaxRounds
       /\ receive_round(TRUE, <<"t">>, TRUE, caller.current_side, TRUE,
                        caller.debate_history)
    /\ NoteFailures
    /\ UNCHANGED sessions

session_turn == round_turn /\ SessionAnswered

session_intervene == round_intervene /\ SessionAnswered

session_summary == round_summary /\ SessionAnswered

session_evaluate == round_evaluate /\ SessionAnswered

\* the caller takes the response of its round: after a round outcome it uses
\* next_side for its next round and keeps the history the response carries
session_response ==
    /\ pc = "idle"
    /\ req.op = "round"
    /\ LET id     == sessions.active
           caller == sessions.caller[id]
           done   == resp.status \in {"success", "moderator_intervention"}
           entry  == loc.debate_history[Len(loc.debate_history)]
       IN  sessions' = [sessions EXCEPT !.caller[id] =
               IF done
               THEN [caller EXCEPT
                       !.current_side = resp.next_side,
                       !.debate_history = IF resp.has_history
                                          THEN resp.debate_history
                                          ELSE caller.debate_history,
                       !.appended = Append(caller.appended, entry.side)]
               ELSE caller]
    /\ req' = NoRequest
    /\ loc' = NoLocals
    /\ calls' = <<>>
    /\ resp' = NoResponse
    /\ UNCHANGED pc
    /\ NoteFailures

\* a server whose handlers keep their locals in one place for all requests
switch_shares_locals ==
    /\ sessions' = [sessions EXCEPT
           !.active = Other(sessions.active),
           !.parked = Handler(pc, req, loc, calls, resp)]
    /\ pc' = sessions.parked.pc
    /\ req' = sessions.parked.req
    /\ loc' = loc
    /\ calls' = sessions.parked.calls
    /\ resp' = sessions.parked.resp
    /\ NoteFailures

\* the server goes on with the handler of the other session
switch ==
    /\ sessions' = [sessions EXCEPT
           !.active = Other(sessions.active),
           !.parked = Handler(pc, req, loc, calls, resp)]
    /\ pc' = sessions.parked.pc
    /\ req' = sessions.parked.req
    /\ loc' = sessions.parked.loc
    /\ calls' = sessions.parked.calls
    /\ resp' = sessions.parked.resp
    /\ NoteFailures

SessionsNext ==
    \/ session_round_request
    \/ session_turn
    \/ session_intervene
    \/ session_summary
    \/ session_evaluate
    \/ session_response
    \/ switch

SpecSessions == SessionsInit /\ [][SessionsNext]_vars

\* the side that is not this one
Opposite(side) == IF side = "for" THEN "against" ELSE "for"

\* the sides of the entries the successful rounds of a session appended
Appended(id) == sessions.caller[id].appended

\* C22: in a session whose caller passes each returned next_side as the
\* current_side of its next round, the entries appended by successive
\* successful rounds have the sides s, opposite of s, s, ...: no two
\* consecutive ones have the same side, whether the rounds ended Evaluated
\* or Intervened.
SessionSidesAlternate ==
    \A id \in SessionIds :
        /\ \A i \in 1..Len(Appended(id)) :
              Appended(id)[i] = IF i % 2 = 1
                                THEN sessions.caller[id].first_side
                                ELSE Opposite(sessions.caller[id].first_side)
        /\ \A i \in 1..(Len(Appended(id)) - 1) :
              Appended(id)[i] # Appended(id)[i + 1]

\* a session played three successful rounds of which one was Intervened: its
\* caller got no history back from that round
SessionSidesAlternateWitness ==
    \E id \in SessionIds :
        /\ Len(Appended(id)) >= 3
        /\ Len(sessions.caller[id].debate_history) < Len(Appended(id))
        /\ Len(sessions.caller[id].debate_history) >= 1
        /\ Appended(id)[1] # Appended(id)[2]

\* debate_round serving request r with no other request around, the backend
\* giving the replies of cs in turn: its response and the history it leaves
RoundAlone(r, cs) ==
    LET failed(exc, history) ==
            [resp |-> handle_errors(exc), debate_history |-> history]
        turn == generate_response(r.topic, r.debate_history, r.current_side,
                                  cs[1].reply)
        history == append_entry(r.debate_history, r.current_side, turn.response)
        texts == texts_of(history)
        check == should_intervene(r.topic, texts.texts, cs[2].reply)
        summary == generate_summary(r.topic, texts.texts, cs[3].reply)
        evaluation == evaluate_response(r.topic, turn.response, texts.texts,
                                        cs[3].reply)
    IN  IF turn.exc # NoExc THEN failed(turn.exc, r.debate_history)
        ELSE IF texts.exc # NoExc THEN failed(texts.exc, history)
        ELSE IF check.exc # NoExc THEN failed(check.exc, history)
        ELSE IF check.needs_intervention
        THEN IF summary.exc # NoExc THEN failed(summary.exc, history)
             ELSE [resp |-> [NoResponse EXCEPT
                               !.code = 200, !.status = "moderator_intervention",
                               !.argument = turn.response,
                               !.message = check.reason,
                               !.summary = summary.summary,
                               !.next_side = Opposite(r.current_side)],
                   debate_history |-> history]
        ELSE IF evaluation.exc # NoExc THEN failed(evaluation.exc, history)
             ELSE [resp |-> [NoResponse EXCEPT
                               !.code = 200, !.status = "success",
                               !.argument = turn.response,
                               !.evaluation = evaluation.evaluation,
                               !.next_side = Opposite(r.current_side),
                               !.has_history = TRUE,
                               !.debate_history = history],
                   debate_history |-> history]

\* the handler h serves session id as if that session ran alone: its request
\* is the one the caller of id sent, its history in flight is the request's
\* with at most its own entry, and its outcome is the one of RoundAlone
ServedAlone(h, id) ==
    h.req.op = "round" =>
        /\ h.req.debate_history = sessions.caller[id].debate_history
        /\ h.req.current_side = sessions.caller[id].current_side
        /\ h.pc = "turn" => h.loc.debate_history = h.req.debate_history
        /\ h.pc \in {"intervene", "summary", "evaluate"} =>
              h.loc.debate_history =
                  Append(h.req.debate_history,
                         Entry(h.req.current_side, h.calls[1].reply.response))
        /\ h.pc = "idle" =>
              /\ h.resp = RoundAlone(h.req, h.calls).resp
              /\ h.loc.debate_history = RoundAlone(h.req, h.calls).debate_history

\* C24: when the rounds of two sessions are interleaved in any order, also
\* while a backend call of one of them is in flight or failing, the history
\* and the outcome of each round are those the session gets when it runs
\* alone with the same backend answers.
SessionsIsolated ==
    /\ ServedAlone(Handler(pc, req, loc, calls, resp), sessions.active)
    /\ ServedAlone(sessions.parked, Other(sessions.active))

\* one session has its round outcome while the round of the other, with
\* another history, is in flight after a backend call of it has failed
SessionsIsolatedWitness ==
    /\ pc = "idle"
    /\ req.op = "round"
    /\ resp.status = "success"
    /\ Len(req.debate_history) >= 1
    /\ sessions.parked.pc = "evaluate"
    /\ sessions.parked.req.debate_history # req.debate_history
    /\ Failed(sessions.parked.calls[2].reply)

====
